---- MODULE Spec2Model ----
(***************************************************************************)
(* Clock-tree configuration of the reset-and-clock-control unit            *)
(* (src/src/rcc.rs): the CFGR accumulator, its four setters and            *)
(* CFGR::freeze, with the registers RCC.CFGR, RCC.PLLCFGR, RCC.CR and      *)
(* FLASH.ACR that freeze touches.                                          *)
(***************************************************************************)
EXTENDS Integers, Naturals, Sequences, FiniteSets, TLC

VARIABLES
    cfg,              \* the CFGR accumulator: hclk, pclk1, pclk2, sysclk (Option<u32>)
    overflow_checks,  \* build profile: are integer-overflow checks compiled in
    pc,               \* position of the program
    l,                \* the locals of freeze on the PLL path
    fault,            \* which panic ended freeze ("" = none)
    cfgr,             \* RCC.CFGR fields  ppre2, ppre1, hpre, sw
    pllcfgr,          \* RCC.PLLCFGR fields  pllm, plln, pllp
    cr,               \* RCC.CR fields  pllon, pllrdy
    acr,              \* FLASH.ACR field  latency
    clocks,           \* the Clocks value freeze returned (NoClocks = none yet)
    log               \* the hardware accesses of freeze, in program order

vars == <<cfg, overflow_checks, pc, l, fault, cfgr, pllcfgr, cr, acr, clocks, log>>

----------------------------------------------------------------------------
(* Program constants and bounds *)

HSI == 16000000

\* Option::None of the accumulator's Option<u32> fields
NoneVal == -1

\* reads of a clear PLL-ready flag that are recorded in the log; the spin
\* loop itself is unbounded, further clear reads leave the state unchanged
MaxPolls == 2

\* frequencies handed to the setters (Hz)
SysclkInputs ==
    { 15999999, 16000000, 16000001, 23999999, 24000000, 24500000, 30000000,
      30000001, 48000000, 54000000, 54000001, 60000000, 60000001, 90000000,
      90000001, 95999999, 96000000, 100500000, 108000000, 108000001,
      120000000, 120000001, 150000000, 150000001, 180000000, 180000001,
      210000000, 210000001, 216000000, 216000001, 217000000 }

HclkInputs ==
    { 0, 1, 41666, 41667, 83333, 83334, 166666, 166667, 400000, 400001,
      1333333, 1333334, 2666666, 2666667, 4000000, 5333333, 5333334,
      8000000, 8000001, 15999999, 16000000, 16000001, 24000000, 216000000 }

PclkInputs == { 54000000 }

----------------------------------------------------------------------------
(* Pure helpers of freeze *)

\* Option::unwrap_or
UnwrapOr(opt, default) == IF opt = NoneVal THEN default ELSE opt

\* assert!(sysclk >= HSI)
SysclkFloorOk(sysclk) == sysclk >= HSI

\* assert!(hclk <= sysclk)
HclkCeilOk(hclk, sysclk) == hclk <= sysclk

PllRangeOk_Exclusive(sysclk) == sysclk < 216000000 /\ sysclk >= 24000000

\* assert!(sysclk <= 216_000_000 && sysclk >= 24_000_000)
PllRangeOk(sysclk) == sysclk <= 216000000 /\ sysclk >= 24000000

HpreBits_Shifted(ratio) ==
    IF ratio = 1 THEN 7
    ELSE IF ratio = 2 THEN 8
    ELSE IF ratio >= 3 /\ ratio <= 4 THEN 9
    ELSE IF ratio >= 5 /\ ratio <= 11 THEN 10
    ELSE IF ratio >= 12 /\ ratio <= 39 THEN 11
    ELSE IF ratio >= 40 /\ ratio <= 95 THEN 12
    ELSE IF ratio >= 96 /\ ratio <= 191 THEN 13
    ELSE IF ratio >= 192 /\ ratio <= 383 THEN 14
    ELSE 15

\* match sysclk / hclk { ... } of the divided-oscillator path; ratio 0 is
\* unreachable!() there (hclk < sysclk)
HpreBits(ratio) ==
    IF ratio = 1 THEN 7
    ELSE IF ratio = 2 THEN 8
    ELSE IF ratio >= 3 /\ ratio <= 5 THEN 9
    ELSE IF ratio >= 6 /\ ratio <= 11 THEN 10
    ELSE IF ratio >= 12 /\ ratio <= 39 THEN 11
    ELSE IF ratio >= 40 /\ ratio <= 95 THEN 12
    ELSE IF ratio >= 96 /\ ratio <= 191 THEN 13
    ELSE IF ratio >= 192 /\ ratio <= 383 THEN 14
    ELSE 15

\* (pllm, plln, pllp) by sysclk band; plln is written "as u16"
PllParams(sysclk) ==
    IF sysclk >= 96000000
    THEN [pllm |-> 16, plln |-> ((sysclk \div 1000000) * 2) % 65536, pllp |-> 0]
    ELSE IF sysclk <= 54000000
    THEN [pllm |-> 16, plln |-> ((sysclk \div 1000000) * 8) % 65536, pllp |-> 3]
    ELSE [pllm |-> 16, plln |-> ((sysclk \div 1000000) * 4) % 65536, pllp |-> 1]

Ppre2Bits(sysclk) == IF sysclk > 108000000 THEN 4 ELSE 0

Ppre1Bits_Swapped(sysclk) ==
    IF sysclk > 108000000 THEN 4
    ELSE IF sysclk > 54000000 THEN 5
    ELSE 0

Ppre1Bits(sysclk) ==
    IF sysclk > 108000000 THEN 5
    ELSE IF sysclk > 54000000 THEN 4
    ELSE 0

\* u8 subtraction without overflow checks: wraps modulo 2^8
WrappingSubU8(a, b) == (a + 256 - b) % 256

\* does the u8 subtraction bits - 0b011 overflow
SubOverflows(bits) == bits < 3

\* 1u32 << sh without overflow checks: the shift amount is masked to 5 bits
OneShl(sh) == 2 ^ (sh % 32)

\* "Calculate real divisor":  1 << (bits - 0b011)
RealDivisor(bits) == OneShl(WrappingSubU8(bits, 3))

\* "Calculate new bus clocks":  hclk / ppre
BusClock(hclk, divisor) == hclk \div divisor

FlashLatency_Strict(sysclk) ==
    IF sysclk < 30000000 THEN 0
    ELSE IF sysclk < 60000000 THEN 1
    ELSE IF sysclk < 90000000 THEN 2
    ELSE IF sysclk < 120000000 THEN 3
    ELSE IF sysclk < 150000000 THEN 4
    ELSE IF sysclk < 180000000 THEN 5
    ELSE IF sysclk < 210000000 THEN 6
    ELSE 7

\* "Adjust flash wait states"
FlashLatency(sysclk) ==
    IF sysclk <= 30000000 THEN 0
    ELSE IF sysclk <= 60000000 THEN 1
    ELSE IF sysclk <= 90000000 THEN 2
    ELSE IF sysclk <= 120000000 THEN 3
    ELSE IF sysclk <= 150000000 THEN 4
    ELSE IF sysclk <= 180000000 THEN 5
    ELSE IF sysclk <= 210000000 THEN 6
    ELSE 7

MakeClocks_Swapped(hclk, pclk1, pclk2, sysclk) ==
    [hclk |-> sysclk, pclk1 |-> pclk1, pclk2 |-> pclk2, sysclk |-> hclk]

\* Clocks { hclk: Hertz(hclk), pclk1: Hertz(pclk1), pclk2: Hertz(pclk2), sysclk: Hertz(sysclk) }
MakeClocks(hclk, pclk1, pclk2, sysclk) ==
    [hclk |-> hclk, pclk1 |-> pclk1, pclk2 |-> pclk2, sysclk |-> sysclk]

----------------------------------------------------------------------------
(* State after RccExt::constrain, registers at their reset values *)

NoClocks == [hclk |-> NoneVal, pclk1 |-> NoneVal, pclk2 |-> NoneVal, sysclk |-> NoneVal]

NoLocals ==
    [sysclk |-> 0, hclk |-> 0, pllm |-> 0, plln |-> 0, pllp |-> 0,
     ppre1_bits |-> 0, ppre2_bits |-> 0, pclk1 |-> 0, pclk2 |-> 0]

ResetCfgr == [ppre2 |-> 0, ppre1 |-> 0, hpre |-> 0, sw |-> "HSI"]
ResetPllcfgr == [pllm |-> 16, plln |-> 192, pllp |-> 0]
ResetCr == [pllon |-> FALSE, pllrdy |-> FALSE]
ResetAcr == [latency |-> 0]

Init ==
    /\ cfg = [hclk |-> NoneVal, pclk1 |-> NoneVal, pclk2 |-> NoneVal, sysclk |-> NoneVal]
    /\ overflow_checks \in BOOLEAN
    /\ pc = "build"
    /\ l = NoLocals
    /\ fault = ""
    /\ cfgr = ResetCfgr
    /\ pllcfgr = ResetPllcfgr
    /\ cr = ResetCr
    /\ acr = ResetAcr
    /\ clocks = NoClocks
    /\ log = <<>>

----------------------------------------------------------------------------
(* The accumulator's setters *)

SetHclk ==
    /\ pc = "build"
    /\ \E freq \in HclkInputs : cfg' = [cfg EXCEPT !.hclk = freq]
    /\ UNCHANGED <<overflow_checks, pc, l, fault, cfgr, pllcfgr, cr, acr, clocks, log>>

SetPclk1 ==
    /\ pc = "build"
    /\ \E freq \in PclkInputs : cfg' = [cfg EXCEPT !.pclk1 = freq]
    /\ UNCHANGED <<overflow_checks, pc, l, fault, cfgr, pllcfgr, cr, acr, clocks, log>>

SetPclk2 ==
    /\ pc = "build"
    /\ \E freq \in PclkInputs : cfg' = [cfg EXCEPT !.pclk2 = freq]
    /\ UNCHANGED <<overflow_checks, pc, l, fault, cfgr, pllcfgr, cr, acr, clocks, log>>

SetSysclk ==
    /\ pc = "build"
    /\ \E freq \in SysclkInputs : cfg' = [cfg EXCEPT !.sysclk = freq]
    /\ UNCHANGED <<overflow_checks, pc, l, fault, cfgr, pllcfgr, cr, acr, clocks, log>>

----------------------------------------------------------------------------
(* CFGR::freeze *)

EffSysclk == UnwrapOr(cfg.sysclk, HSI)
EffHclk == UnwrapOr(cfg.hclk, HSI)

\* a panic: freeze unwinds, nothing else changes
Panic(why) ==
    /\ pc' = "fatal"
    /\ fault' = why
    /\ UNCHANGED <<cfg, overflow_checks, l, cfgr, pllcfgr, cr, acr, clocks, log>>

\* one of the two assertions on entry fails
FreezeAssertFail ==
    /\ pc = "build"
    /\ IF ~SysclkFloorOk(EffSysclk) THEN Panic("assert_sysclk_ge_hsi")
       ELSE /\ ~HclkCeilOk(EffHclk, EffSysclk)
            /\ Panic("assert_hclk_le_sysclk")

\* sysclk == HSI && hclk == sysclk: HSI, everything at the same speed
FreezeHsi ==
    /\ pc = "build"
    /\ SysclkFloorOk(EffSysclk)
    /\ HclkCeilOk(EffHclk, EffSysclk)
    /\ EffSysclk = HSI /\ EffHclk = EffSysclk
    /\ cfgr' = [ppre2 |-> 0, ppre1 |-> 0, hpre |-> 0, sw |-> "HSI"]
    /\ log' = Append(log, "cfgr_w")
    /\ clocks' = MakeClocks(EffHclk, EffHclk, EffHclk, EffSysclk)
    /\ pc' = "done"
    /\ UNCHANGED <<cfg, overflow_checks, l, fault, pllcfgr, cr, acr>>

\* sysclk == HSI && hclk < sysclk: HSI, core bus divided
FreezeHsiDivided ==
    /\ pc = "build"
    /\ SysclkFloorOk(EffSysclk)
    /\ HclkCeilOk(EffHclk, EffSysclk)
    /\ ~(EffSysclk = HSI /\ EffHclk = EffSysclk)
    /\ EffSysclk = HSI /\ EffHclk < EffSysclk
    /\ IF EffHclk = 0 THEN Panic("divide_by_zero")
       ELSE /\ cfgr' = [ppre2 |-> 0, ppre1 |-> 0,
                        hpre |-> HpreBits(EffSysclk \div EffHclk), sw |-> "HSI"]
            /\ log' = Append(log, "cfgr_w")
            /\ clocks' = MakeClocks(EffHclk, EffHclk, EffHclk, EffSysclk)
            /\ pc' = "done"
            /\ UNCHANGED <<cfg, overflow_checks, l, fault, pllcfgr, cr, acr>>

\* the locals of the PLL path once every divisor and bus clock is computed
PllLocals(sysclk) ==
    LET hclk == sysclk
        pll == PllParams(sysclk)
        ppre2_bits == Ppre2Bits(sysclk)
        ppre1_bits == Ppre1Bits(sysclk)
        ppre1 == RealDivisor(ppre1_bits)
        ppre2 == RealDivisor(ppre2_bits)
    IN  [sysclk |-> sysclk, hclk |-> hclk,
         pllm |-> pll.pllm, plln |-> pll.plln, pllp |-> pll.pllp,
         ppre1_bits |-> ppre1_bits, ppre2_bits |-> ppre2_bits,
         pclk1 |-> BusClock(hclk, ppre1), pclk2 |-> BusClock(hclk, ppre2)]

\* the overflow-checked subtractions of "Calculate real divisor" panic
DivisorPanics(sysclk) ==
    overflow_checks /\ (SubOverflows(Ppre1Bits(sysclk)) \/ SubOverflows(Ppre2Bits(sysclk)))

FreezePll_LateCheck ==
    /\ pc = "build"
    /\ SysclkFloorOk(EffSysclk)
    /\ HclkCeilOk(EffHclk, EffSysclk)
    /\ ~(EffSysclk = HSI /\ EffHclk = EffSysclk)
    /\ ~(EffSysclk = HSI /\ EffHclk < EffSysclk)
    /\ IF ~PllRangeOk(EffSysclk) THEN Panic("assert_pll_range")
       ELSE IF DivisorPanics(EffSysclk)
       THEN /\ acr' = [latency |-> FlashLatency(EffSysclk)]
            /\ log' = Append(log, "flash_acr_w")
            /\ pc' = "fatal"
            /\ fault' = "subtract_overflow"
            /\ UNCHANGED <<cfg, overflow_checks, l, cfgr, pllcfgr, cr, clocks>>
       ELSE /\ l' = PllLocals(EffSysclk)
            /\ pc' = "flash"
            /\ UNCHANGED <<cfg, overflow_checks, fault, cfgr, pllcfgr, cr, acr, clocks, log>>

\* the else branch up to the first register access: range assertion, PLL
\* parameters, prescaler codes, real divisors, bus clocks
FreezePll ==
    /\ pc = "build"
    /\ SysclkFloorOk(EffSysclk)
    /\ HclkCeilOk(EffHclk, EffSysclk)
    /\ ~(EffSysclk = HSI /\ EffHclk = EffSysclk)
    /\ ~(EffSysclk = HSI /\ EffHclk < EffSysclk)
    /\ IF ~PllRangeOk(EffSysclk) THEN Panic("assert_pll_range")
       ELSE IF DivisorPanics(EffSysclk) THEN Panic("subtract_overflow")
       ELSE /\ l' = PllLocals(EffSysclk)
            /\ pc' = "flash"
            /\ UNCHANGED <<cfg, overflow_checks, fault, cfgr, pllcfgr, cr, acr, clocks, log>>

\* flash.acr.write(|w| w.latency().bits(..))
WriteFlashAcr ==
    /\ pc = "flash"
    /\ acr' = [latency |-> FlashLatency(l.sysclk)]
    /\ log' = Append(log, "flash_acr_w")
    /\ pc' = "pllcfgr"
    /\ UNCHANGED <<cfg, overflow_checks, l, fault, cfgr, pllcfgr, cr, clocks>>

\* rcc.pllcfgr.write(|w| w.pllm().bits(pllm).plln().bits(plln as u16).pllp().bits(pllp))
WritePllcfgr ==
    /\ pc = "pllcfgr"
    /\ pllcfgr' = [pllm |-> l.pllm, plln |-> l.plln, pllp |-> l.pllp]
    /\ log' = Append(log, "pllcfgr_w")
    /\ pc' = "pllon"
    /\ UNCHANGED <<cfg, overflow_checks, l, fault, cfgr, cr, acr, clocks>>

\* rcc.cr.write(|w| w.pllon().set_bit())
EnablePll ==
    /\ pc = "pllon"
    /\ cr' = [cr EXCEPT !.pllon = TRUE]
    /\ log' = Append(log, "cr_pllon_w")
    /\ pc' = "poll"
    /\ UNCHANGED <<cfg, overflow_checks, l, fault, cfgr, pllcfgr, acr, clocks>>

\* freeze is past the range assertion of its else branch
OnPllPath ==
    \/ pc \in {"flash", "pllcfgr", "pllon", "poll", "switch"}
    \/ pc = "done" /\ EffSysclk > HSI

\* the PLL locks: the hardware raises the ready flag some time after the
\* enable bit is set, or never
PllLock ==
    /\ cr.pllon
    /\ ~cr.pllrdy
    /\ cr' = [cr EXCEPT !.pllrdy = TRUE]
    /\ UNCHANGED <<cfg, overflow_checks, pc, l, fault, cfgr, pllcfgr, acr, clocks, log>>

ClearReads == Cardinality({i \in 1..Len(log) : log[i] = "cr_pllrdy_r0"})

PollPllRdy_Inverted ==
    /\ pc = "poll"
    /\ IF ~cr.pllrdy
       THEN /\ log' = Append(log, "cr_pllrdy_r0")
            /\ pc' = "switch"
       ELSE /\ log' = log
            /\ pc' = pc
    /\ UNCHANGED <<cfg, overflow_checks, l, fault, cfgr, pllcfgr, cr, acr, clocks>>

\* one iteration of  while rcc.cr.read().pllrdy().bit_is_clear() {}
PollPllRdy ==
    /\ pc = "poll"
    /\ IF cr.pllrdy
       THEN /\ log' = Append(log, "cr_pllrdy_r1")
            /\ pc' = "switch"
       ELSE /\ log' = IF ClearReads < MaxPolls THEN Append(log, "cr_pllrdy_r0") ELSE log
            /\ pc' = pc
    /\ UNCHANGED <<cfg, overflow_checks, l, fault, cfgr, pllcfgr, cr, acr, clocks>>

SwitchToPll_TwoWrites ==
    /\ pc = "switch"
    /\ cfgr' = [ppre2 |-> l.ppre2_bits, ppre1 |-> l.ppre1_bits, hpre |-> 0, sw |-> "PLL"]
    /\ log' = Append(Append(log, "cfgr_w"), "cfgr_w")
    /\ clocks' = MakeClocks(l.hclk, l.pclk1, l.pclk2, l.sysclk)
    /\ pc' = "done"
    /\ UNCHANGED <<cfg, overflow_checks, l, fault, pllcfgr, cr, acr>>

\* "Set scaling factors and switch clock to PLL" in one modify, then the
\* Clocks value is returned
SwitchToPll ==
    /\ pc = "switch"
    /\ cfgr' = [ppre2 |-> l.ppre2_bits, ppre1 |-> l.ppre1_bits, hpre |-> 0, sw |-> "PLL"]
    /\ log' = Append(log, "cfgr_w")
    /\ clocks' = MakeClocks(l.hclk, l.pclk1, l.pclk2, l.sysclk)
    /\ pc' = "done"
    /\ UNCHANGED <<cfg, overflow_checks, l, fault, pllcfgr, cr, acr>>

----------------------------------------------------------------------------
(* Specifications *)

FreezeStep ==
    \/ FreezeAssertFail
    \/ FreezeHsi
    \/ FreezeHsiDivided
    \/ FreezePll
    \/ WriteFlashAcr
    \/ WritePllcfgr
    \/ EnablePll
    \/ PollPllRdy
    \/ SwitchToPll

Next ==
    \/ SetHclk
    \/ SetPclk1
    \/ SetPclk2
    \/ SetSysclk
    \/ FreezeAssertFail
    \/ FreezeHsi
    \/ FreezeHsiDivided
    \/ FreezePll
    \/ WriteFlashAcr
    \/ WritePllcfgr
    \/ EnablePll
    \/ PollPllRdy
    \/ SwitchToPll
    \/ PllLock

Spec == Init /\ [][Next]_vars

\* freeze runs to completion on a single thread: once called, the program
\* keeps stepping; the hardware is under no obligation to lock the PLL, and
\* the caller under none to call freeze
LiveSpec == Spec /\ WF_vars(pc # "build" /\ FreezeStep)

----------------------------------------------------------------------------
(* Properties of freeze *)

\* C1: a request whose effective sysclk is below 16 MHz, or whose effective
\* hclk is above the effective sysclk, or whose sysclk is above 16 MHz and
\* outside [24 MHz, 216 MHz] makes freeze panic and yields no Clocks value;
\* sysclk = 15,999,999 and 217,000,000 panic; sysclk = 216,000,000 with hclk
\* unset does not panic, and the Clocks value it ends with records 216 MHz.
C1_FatalRequests ==
    LET FatalRequest ==
            \/ EffSysclk < 16000000
            \/ EffHclk > EffSysclk
            \/ EffSysclk > 16000000 /\ (EffSysclk < 24000000 \/ EffSysclk > 216000000)
    IN  /\ (pc # "build" /\ FatalRequest) => (pc = "fatal" /\ clocks = NoClocks)
        /\ (pc # "build" /\ cfg.sysclk \in {15999999, 217000000}) => pc = "fatal"
        /\ (pc # "build" /\ cfg.sysclk = 216000000 /\ cfg.hclk = NoneVal) =>
              /\ pc # "fatal"
              /\ fault = ""
              /\ (pc = "done" => clocks # NoClocks /\ clocks.sysclk = 216000000)
              /\ (clocks # NoClocks => cr.pllrdy)

C1_Witness ==
    /\ pc = "fatal"
    /\ cfg.sysclk = 217000000
    /\ fault = "assert_pll_range"

\* C2 as stated: for sysclk in (108 MHz, 216 MHz] freeze writes ppre1 = 0b101
\* and ppre2 = 0b100 and returns hclk = sysclk, pclk1 = sysclk / 8 and
\* pclk2 = sysclk / 4.
C2_Original ==
    (pc = "done" /\ EffSysclk > 108000000 /\ EffSysclk <= 216000000) =>
        /\ cfgr.ppre1 = 5
        /\ cfgr.ppre2 = 4
        /\ clocks.hclk = EffSysclk
        /\ clocks.pclk1 = EffSysclk \div 8
        /\ clocks.pclk2 = EffSysclk \div 4

\* C2 amended: for sysclk in (108 MHz, 216 MHz] freeze writes ppre1 = 0b101
\* and ppre2 = 0b100 and returns hclk = sysclk, pclk1 = sysclk / 4 and
\* pclk2 = sysclk / 2 (integer division); 180 MHz gives 45 MHz and 90 MHz.
C2_Amended ==
    (pc = "done" /\ EffSysclk > 108000000 /\ EffSysclk <= 216000000) =>
        /\ cfgr.ppre1 = 5
        /\ cfgr.ppre2 = 4
        /\ clocks.sysclk = EffSysclk
        /\ clocks.hclk = EffSysclk
        /\ clocks.pclk1 = EffSysclk \div 4
        /\ clocks.pclk2 = EffSysclk \div 2

C2_Witness ==
    /\ pc = "done"
    /\ cfg.sysclk = 180000000
    /\ cfgr.ppre1 = 5 /\ cfgr.ppre2 = 4
    /\ clocks.hclk = 180000000
    /\ clocks.pclk1 = 45000000
    /\ clocks.pclk2 = 90000000

\* C3 as stated: for sysclk in [24 MHz, 54 MHz] freeze never ends in an
\* arithmetic fault and the Clocks value it returns has
\* pclk1 = pclk2 = hclk = sysclk.
C3_Original ==
    (pc # "build" /\ EffSysclk >= 24000000 /\ EffSysclk <= 54000000
        /\ EffHclk <= EffSysclk) =>
        /\ pc # "fatal"
        /\ (pc = "done" =>
              clocks = [hclk |-> EffSysclk, pclk1 |-> EffSysclk,
                        pclk2 |-> EffSysclk, sysclk |-> EffSysclk])

\* C4: every Clocks value freeze returns has pclk1 <= hclk, pclk2 <= hclk
\* and hclk <= sysclk.
C4_ClockOrder ==
    clocks # NoClocks =>
        /\ clocks.pclk1 <= clocks.hclk
        /\ clocks.pclk2 <= clocks.hclk
        /\ clocks.hclk <= clocks.sysclk

C4_Witness ==
    /\ pc = "done"
    /\ cfg.sysclk = HSI
    /\ cfg.hclk = 4000000
    /\ cfg.pclk1 # NoneVal
    /\ cfg.pclk2 # NoneVal
    /\ clocks.hclk < clocks.sysclk

\* C5: when freeze has ended in a panic, no register has been accessed:
\* CFGR, PLLCFGR, the PLL enable bit and the flash wait-state field hold the
\* values they had when freeze was called.
C5_NoWriteBeforeFault ==
    pc = "fatal" =>
        /\ log = <<>>
        /\ cfgr = ResetCfgr
        /\ pllcfgr = ResetPllcfgr
        /\ cr.pllon = ResetCr.pllon
        /\ acr = ResetAcr

C5_Witness ==
    /\ pc = "fatal"
    /\ fault = "subtract_overflow"
    /\ EffSysclk = 48000000

\* C6: with effective sysclk = 16 MHz and 0 < hclk <= 16 MHz freeze selects
\* the HSI, writes ppre1 = ppre2 = 0, writes hpre = 0 when hclk = sysclk and
\* otherwise the table's code for sysclk / hclk, accesses no other register,
\* and returns sysclk = 16 MHz, hclk as requested, pclk1 = pclk2 = hclk.
C6_OscillatorPaths ==
    LET ratio == 16000000 \div EffHclk
        code == CASE ratio = 1 -> 7
                  [] ratio = 2 -> 8
                  [] ratio \in 3..5 -> 9
                  [] ratio \in 6..11 -> 10
                  [] ratio \in 12..39 -> 11
                  [] ratio \in 40..95 -> 12
                  [] ratio \in 96..191 -> 13
                  [] ratio \in 192..383 -> 14
                  [] OTHER -> 15
    IN  (pc # "build" /\ EffSysclk = 16000000 /\ EffHclk > 0 /\ EffHclk <= 16000000) =>
            /\ pc = "done"
            /\ log = <<"cfgr_w">>
            /\ cfgr.sw = "HSI"
            /\ cfgr.ppre1 = 0 /\ cfgr.ppre2 = 0
            /\ cfgr.hpre = (IF EffHclk = 16000000 THEN 0 ELSE code)
            /\ clocks = [hclk |-> EffHclk, pclk1 |-> EffHclk, pclk2 |-> EffHclk,
                         sysclk |-> 16000000]

C6_Witness ==
    /\ pc = "done"
    /\ cfg.hclk = 4000000
    /\ EffSysclk = 16000000
    /\ cfgr.hpre = 9
    /\ clocks.pclk1 = 4000000 /\ clocks.pclk2 = 4000000

\* C7: on the PLL path the register accesses are, in this order, the flash
\* wait-state write, the PLLCFGR write, the PLL enable write, reads of the
\* PLL-ready flag, and one CFGR write of both peripheral prescalers, the core
\* prescaler and the PLL clock source; so the clock source is PLL only with
\* the target's wait-state code in effect and after a read returned ready.
C7_PllSequence ==
    LET n == Len(log)
        Reads == {"cr_pllrdy_r0", "cr_pllrdy_r1"}
    IN  OnPllPath =>
            /\ \A i \in 1..n :
                  /\ (i = 1) <=> (log[i] = "flash_acr_w")
                  /\ (i = 2) <=> (log[i] = "pllcfgr_w")
                  /\ (i = 3) <=> (log[i] = "cr_pllon_w")
                  /\ i >= 4 => log[i] \in Reads \cup {"cfgr_w"}
                  /\ log[i] = "cr_pllrdy_r1" => (i = n \/ (i = n - 1 /\ log[n] = "cfgr_w"))
                  /\ log[i] = "cfgr_w" => (i = n /\ i >= 5 /\ log[i - 1] = "cr_pllrdy_r1")
            /\ pc = "flash" => n = 0
            /\ pc = "pllcfgr" => n = 1
            /\ pc = "pllon" => n = 2
            /\ pc = "poll" => (n >= 3 /\ \A i \in 4..n : log[i] = "cr_pllrdy_r0")
            /\ pc = "switch" => (n >= 4 /\ log[n] = "cr_pllrdy_r1")
            /\ pc = "done" => (n >= 5 /\ log[n] = "cfgr_w")
            /\ (cfgr.sw = "PLL") <=> (pc = "done")
            /\ cfgr.sw = "PLL" =>
                  /\ acr.latency = FlashLatency(EffSysclk)
                  /\ pllcfgr = [pllm |-> l.pllm, plln |-> l.plln, pllp |-> l.pllp]
                  /\ cr.pllon
                  /\ cfgr = [ppre2 |-> l.ppre2_bits, ppre1 |-> l.ppre1_bits,
                             hpre |-> 0, sw |-> "PLL"]

C7_Witness ==
    /\ pc = "done"
    /\ cfgr.sw = "PLL"
    /\ log = <<"flash_acr_w", "pllcfgr_w", "cr_pllon_w", "cr_pllrdy_r0",
               "cr_pllrdy_r1", "cfgr_w">>

C9_WaitStates ==
    LET Ceil30(f) == (f + 30000000 - 1) \div 30000000
        Clamp(x) == IF x < 0 THEN 0 ELSE IF x > 7 THEN 7 ELSE x
        Written == OnPllPath /\ pc \notin {"flash"}
    IN  /\ Written => acr.latency = Clamp(Ceil30(EffSysclk) - 1)
        /\ Written =>
              \A f \in SysclkInputs :
                  (f >= 24000000 /\ f <= 216000000) =>
                      /\ (f <= EffSysclk => Clamp(Ceil30(f) - 1) <= acr.latency)
                      /\ (f >= EffSysclk => Clamp(Ceil30(f) - 1) >= acr.latency)

C9_Witness ==
    /\ pc = "done"
    /\ cfg.sysclk = 180000000
    /\ acr.latency = 5

\* C10 as stated: for every sysclk accepted on the PLL path, whole multiple
\* of 1 MHz or not, the PLL fields freeze wrote give
\* 16 MHz / pllm * plln / P = the sysclk and hclk of the returned Clocks
\* value, with P = 2, 4, 8 for pllp = 0, 1, 3.
C10_Original ==
    LET P == CASE pllcfgr.pllp = 0 -> 2
               [] pllcfgr.pllp = 1 -> 4
               [] pllcfgr.pllp = 3 -> 8
               [] OTHER -> 6
        PllOut == ((16000000 \div pllcfgr.pllm) * pllcfgr.plln) \div P
    IN  (pc = "done" /\ OnPllPath) =>
            /\ PllOut = clocks.sysclk
            /\ PllOut = clocks.hclk

====
